---- MODULE Spec2Model ----
(***************************************************************************)
(* Model of the skeletal animation core of animation-studio:               *)
(*   bones.ts    - BoneSystem   (bone hierarchy, FK propagation, CCD IK)    *)
(*   timeline.ts - TimelineSystem (tracks, keyframes, interpolation, clock) *)
(*                                                                         *)
(* Numbers.  The program computes in IEEE doubles.  The model computes in  *)
(* exact arithmetic on the integer lattice: coordinates and lengths are    *)
(* integers, and an angle is a number of quarter turns (1 = pi/2) kept     *)
(* modulo a full turn, so that cos and sin (the only readers of an angle)  *)
(* are exact.  Interpolated property values are exact rationals <<n, d>>.  *)
(* Rounding of doubles is not modelled.                                    *)
(***************************************************************************)
EXTENDS Integers, Sequences, FiniteSets, TLC

VARIABLES
    bones,           \* BoneSystem.bones: id -> BoneData
    boneGraphics,    \* BoneSystem.boneGraphics: the ids that own a container
    selectedBoneId,  \* BoneSystem.selectedBoneId
    boneSeq,         \* number of bone ids generated so far (ids are fresh)
    tracks,          \* TimelineSystem.tracks, in the Map's insertion order
    currentFrame,    \* TimelineSystem.currentFrame
    totalFrames,     \* TimelineSystem.totalFrames
    emitted,         \* the events the last timeline operation dispatched
    fps,             \* TimelineSystem.fps
    isPlaying,       \* TimelineSystem.isPlaying
    playInterval,    \* TimelineSystem.playInterval: a timer id, 0 for null
    timers,          \* the ids of the interval timers the window holds
    now,             \* Date.now(), in milliseconds
    last,            \* the last operation: its name, the id it was given, and
                     \* what the witnesses need of its arguments and outcome
    steps            \* number of operations performed

boneVars == <<bones, boneGraphics, selectedBoneId, boneSeq>>
playVars == <<fps, isPlaying, playInterval, timers>>
timelineVars == <<tracks, currentFrame, totalFrames, emitted, now, playVars>>
vars == <<bones, boneGraphics, selectedBoneId, boneSeq,
          tracks, currentFrame, totalFrames, emitted, now,
          fps, isPlaying, playInterval, timers, last, steps>>

(***************************** bounds *************************************)
MaxBones == 3
MaxSteps == 4

\* inputs of the bone operations: (x, y), length and angle given to createBone,
\* positions given to moveBone, angles given to setBoneAngle, targets of solveIK
CreateArgs == {<<<<0, 0>>, 30, 0>>, <<<<4, 7>>, 50, 1>>}
Points == {<<0, 0>>, <<4, 7>>}
Angles == 0 .. 3
Targets == {<<80, 0>>, <<0, 30>>, <<30, 50>>}

(************************* BoneSystem: data *******************************)
NoId == 0
GhostId == MaxBones + 1
BoneIds == 1 .. MaxBones

ikIterations == 10
\* ikTolerance = 0.1 = ikTolNum / ikTolDen
ikTolNum == 1
ikTolDen == 10

Vec(px, py) == [x |-> px, y |-> py]

Cos(a) == CASE a % 4 = 0 -> 1 [] a % 4 = 1 -> 0 [] a % 4 = 2 -> -1 [] OTHER -> 0
Sin(a) == CASE a % 4 = 0 -> 0 [] a % 4 = 1 -> 1 [] a % 4 = 2 -> 0 [] OTHER -> -1

Has(bs, id) == id \in DOMAIN bs

\* Map.set / Map.delete on a function
MapSet(m, k, v) == [i \in DOMAIN m \cup {k} |-> IF i = k THEN v ELSE m[i]]
MapDelete(m, k) == [i \in DOMAIN m \ {k} |-> m[i]]

SeqRange(s) == {s[i] : i \in 1 .. Len(s)}

getBoneEnd(bone) ==
    Vec(bone.x + Cos(bone.angle) * bone.length,
        bone.y + Sin(bone.angle) * bone.length)

\* a propagation that stops at the bone itself
updateChildrenNone(bs, cs, i) == bs

RECURSIVE updateBonePosition(_, _)
RECURSIVE updateChildren(_, _, _)
\* updateBonePosition(bone): snap to the parent's end, then recurse on children
updateBonePosition(bs, id) ==
    LET bone == bs[id]
        b1 == IF bone.parentId # NoId /\ Has(bs, bone.parentId)
              THEN LET parentEnd == getBoneEnd(bs[bone.parentId])
                   IN  [bs EXCEPT ![id].x = parentEnd.x, ![id].y = parentEnd.y]
              ELSE bs
    IN  updateChildren(b1, b1[id].children, 1)
\* bone.children.forEach(childId => ...) of updateBonePosition
updateChildren(bs, cs, i) ==
    IF i > Len(cs) THEN bs
    ELSE updateChildren(IF Has(bs, cs[i]) THEN updateBonePosition(bs, cs[i]) ELSE bs,
                        cs, i + 1)

\* a move that shifts the direct children only
moveChildrenFlat(bs, id, dx, dy) ==
    [b \in DOMAIN bs |->
        IF b \in SeqRange(bs[id].children)
        THEN [bs[b] EXCEPT !.x = @ + dx, !.y = @ + dy]
        ELSE bs[b]]

RECURSIVE moveChildren(_, _, _, _)
RECURSIVE moveEach(_, _, _, _, _)
moveChildren(bs, id, dx, dy) == moveEach(bs, bs[id].children, 1, dx, dy)
moveEach(bs, cs, i, dx, dy) ==
    IF i > Len(cs) THEN bs
    ELSE IF Has(bs, cs[i])
         THEN LET b1 == [bs EXCEPT ![cs[i]].x = @ + dx, ![cs[i]].y = @ + dy]
              IN  moveEach(moveChildren(b1, cs[i], dx, dy), cs, i + 1, dx, dy)
         ELSE moveEach(bs, cs, i + 1, dx, dy)

\* the part of the state deleteBone works on
BoneState(bs, gr, sel) == [bones |-> bs, graphics |-> gr, selected |-> sel]

\* a delete that leaves the children in place
deleteEachNone(st, cs, i) == st

RECURSIVE deleteBone(_, _)
RECURSIVE deleteEach(_, _, _)
deleteBone(st, boneId) ==
    IF ~Has(st.bones, boneId) THEN st
    ELSE LET bone == st.bones[boneId]
             detached ==
                 IF bone.parentId # NoId /\ Has(st.bones, bone.parentId)
                 THEN [st EXCEPT !.bones[bone.parentId].children =
                                     SelectSeq(@, LAMBDA c : c # boneId)]
                 ELSE st
             kids == deleteEach(detached, bone.children, 1)
         IN  [bones |-> MapDelete(kids.bones, boneId),
              graphics |-> kids.graphics \ {boneId},
              selected |-> IF kids.selected = boneId THEN NoId ELSE kids.selected]
\* bone.children.forEach(childId => this.deleteBone(childId)), over the array
\* as it was when forEach started
deleteEach(st, cs, i) ==
    IF i > Len(cs) THEN st ELSE deleteEach(deleteBone(st, cs[i]), cs, i + 1)

(************************* BoneSystem: solveIK ****************************)
\* distance(a, b) < ikTolerance, compared on the squares
withinTolerance(a, b) ==
    ((b.x - a.x) * (b.x - a.x) + (b.y - a.y) * (b.y - a.y)) * ikTolDen * ikTolDen
        < ikTolNum * ikTolNum

\* normalize(v) is the zero vector exactly when v is
isZero(v) == v.x = 0 /\ v.y = 0

\* cross and dot of the two normalised vectors, up to the positive factor
\* |toTarget| * |toEnd| that atan2 ignores
crossOf(toTarget, toEnd) == toTarget.x * toEnd.y - toTarget.y * toEnd.x
dotOf(toTarget, toEnd) == toTarget.x * toEnd.x + toTarget.y * toEnd.y

\* atan2(cross, dot) is a whole number of quarter turns exactly when one of the
\* two vanishes (or a vector is zero, then both are 0 and atan2(0, 0) = 0)
exactAngle(toTarget, toEnd) ==
    \/ isZero(toTarget) \/ isZero(toEnd)
    \/ crossOf(toTarget, toEnd) = 0
    \/ dotOf(toTarget, toEnd) = 0

\* angleDiff = atan2(cross, dot), in quarter turns modulo a full turn
angleDiff(toTarget, toEnd) ==
    LET cross == crossOf(toTarget, toEnd)
        dot == dotOf(toTarget, toEnd)
    IN  IF isZero(toTarget) \/ isZero(toEnd) THEN 0
        ELSE IF cross = 0 THEN (IF dot > 0 THEN 0 ELSE 2)
        ELSE IF cross > 0 THEN 1 ELSE 3

RECURSIVE buildChain(_, _, _)
\* while (current) { chain.unshift(current); current = parent of current }
buildChain(bs, id, chain) ==
    LET c1 == <<id>> \o chain
        par == bs[id].parentId
    IN  IF par # NoId /\ Has(bs, par) THEN buildChain(bs, par, c1) ELSE c1

getChainEnd(bs, chain) == getBoneEnd(bs[chain[Len(chain)]])

\* the vectors of a joint step at chain[i]: from the joint to the target and
\* from the joint to the end effector
toTargetOf(bs, chain, i, target) ==
    Vec(target.x - bs[chain[i]].x, target.y - bs[chain[i]].y)
toEndOf(bs, chain, i) ==
    LET endEffector == getChainEnd(bs, chain)
    IN  Vec(endEffector.x - bs[chain[i]].x, endEffector.y - bs[chain[i]].y)

\* one joint step at chain[i]: currentBone.angle += angleDiff, then
\* updateBonePosition(currentBone)
jointStep(bs, chain, i, target) ==
    LET turned == [bs EXCEPT ![chain[i]].angle =
                       (@ + angleDiff(toTargetOf(bs, chain, i, target),
                                      toEndOf(bs, chain, i))) % 4]
    IN  updateBonePosition(turned, chain[i])

RECURSIVE ccdOncePerPass(_, _, _, _, _)
\* a solver that looks at the tolerance at the start of a pass only
ccdOncePerPass(r, chain, target, iter, i) ==
    IF iter >= ikIterations THEN r
    ELSE IF i < 1 THEN ccdOncePerPass(r, chain, target, iter + 1, Len(chain))
    ELSE IF i = Len(chain) /\ withinTolerance(getChainEnd(r.bones, chain), target)
         THEN r
    ELSE IF ~exactAngle(toTargetOf(r.bones, chain, i, target),
                        toEndOf(r.bones, chain, i))
         THEN [r EXCEPT !.exact = FALSE]
    ELSE ccdOncePerPass([bones |-> jointStep(r.bones, chain, i, target),
                         updates |-> r.updates + 1, exact |-> TRUE],
                        chain, target, iter, i - 1)

RECURSIVE ccd(_, _, _, _, _)
\* the two nested loops of solveIK from (iter, i) on; r carries the bones, the
\* number of angle updates made and whether every angle so far was exact
ccd(r, chain, target, iter, i) ==
    IF iter >= ikIterations THEN r
    ELSE IF i < 1 THEN ccd(r, chain, target, iter + 1, Len(chain))
    ELSE IF withinTolerance(getChainEnd(r.bones, chain), target) THEN r
    ELSE IF ~exactAngle(toTargetOf(r.bones, chain, i, target),
                        toEndOf(r.bones, chain, i))
         THEN [r EXCEPT !.exact = FALSE]
    ELSE ccd([bones |-> jointStep(r.bones, chain, i, target),
              updates |-> r.updates + 1, exact |-> TRUE],
             chain, target, iter, i - 1)

solveIKIn(bs, boneId, target) ==
    IF ~Has(bs, boneId) THEN [bones |-> bs, updates |-> 0, exact |-> TRUE]
    ELSE LET chain == buildChain(bs, boneId, <<>>)
         IN  ccd([bones |-> bs, updates |-> 0, exact |-> TRUE],
                 chain, Vec(target[1], target[2]), 0, Len(chain))

(************************* BoneSystem: operations *************************)
\* what the last operation was: p is the position or target it was given, a the
\* parentId given to createBone, the number of bones before deleteBone, the
\* number of bones setBoneAngle or moveBone repositioned, the number of angle
\* updates solveIK made; for setBoneAngle p[1] is the number of bones that were
\* away from their parent's end point when it was called
Op(name, id, p, a) == [op |-> name, id |-> id, p |-> p, a |-> a]

Displaced(bs) ==
    Cardinality({b \in DOMAIN bs :
                    /\ Has(bs, bs[b].parentId)
                    /\ getBoneEnd(bs[bs[b].parentId]) # Vec(bs[b].x, bs[b].y)})

Repositioned(pre, post) ==
    Cardinality({b \in DOMAIN pre :
                    post[b].x # pre[b].x \/ post[b].y # pre[b].y})

Tick(name, id, p, a) ==
    /\ UNCHANGED timelineVars
    /\ steps' = steps + 1
    /\ last' = Op(name, id, p, a)

newBone(id, x, y, length, angle, parentId) ==
    [x |-> x, y |-> y, length |-> length, angle |-> angle,
     parentId |-> parentId, children |-> <<>>, isSelected |-> FALSE]

\* a createBone that registers the child but keeps the supplied x and y
createBoneKeepXY(bs, id, x, y, length, angle, parentId) ==
    LET b0 == MapSet(bs, id, newBone(id, x, y, length, angle, parentId))
    IN  IF parentId # NoId /\ Has(b0, parentId)
        THEN [b0 EXCEPT ![parentId].children = Append(@, id)]
        ELSE b0

\* the hierarchy after createBone's body ran for the fresh id
createBoneIn(bs, id, x, y, length, angle, parentId) ==
    LET b0 == MapSet(bs, id, newBone(id, x, y, length, angle, parentId))
    IN  IF parentId # NoId /\ Has(b0, parentId)
        THEN LET b1 == [b0 EXCEPT ![parentId].children = Append(@, id)]
                 parentEnd == getBoneEnd(b1[parentId])
             IN  [b1 EXCEPT ![id].x = parentEnd.x, ![id].y = parentEnd.y]
        ELSE b0

createBone(p, length, angle, parentId) ==
    /\ steps < MaxSteps
    /\ boneSeq < MaxBones
    /\ boneSeq' = boneSeq + 1
    /\ bones' = createBoneIn(bones, boneSeq + 1, p[1], p[2], length, angle, parentId)
    /\ boneGraphics' = boneGraphics \cup {boneSeq + 1}
    /\ UNCHANGED selectedBoneId
    /\ Tick("createBone", boneSeq + 1, p, parentId)

DeleteBone(boneId) ==
    LET st == deleteBone(BoneState(bones, boneGraphics, selectedBoneId), boneId)
    IN  /\ steps < MaxSteps
        /\ bones' = st.bones
        /\ boneGraphics' = st.graphics
        /\ selectedBoneId' = st.selected
        /\ UNCHANGED boneSeq
        /\ Tick("deleteBone", boneId, <<0, 0>>, Cardinality(DOMAIN bones))

setBoneAngleIn(bs, boneId, angle) ==
    IF ~Has(bs, boneId) THEN bs
    ELSE updateBonePosition([bs EXCEPT ![boneId].angle = angle], boneId)

setBoneAngle(boneId, angle) ==
    /\ steps < MaxSteps
    /\ bones' = setBoneAngleIn(bones, boneId, angle)
    /\ UNCHANGED <<boneGraphics, selectedBoneId, boneSeq>>
    /\ Tick("setBoneAngle", boneId, <<Displaced(bones), 0>>,
            Repositioned(bones, bones'))

moveBoneIn(bs, boneId, position) ==
    IF ~Has(bs, boneId) THEN bs
    ELSE LET dx == position[1] - bs[boneId].x
             dy == position[2] - bs[boneId].y
             b1 == [bs EXCEPT ![boneId].x = position[1], ![boneId].y = position[2]]
         IN  moveChildren(b1, boneId, dx, dy)

moveBone(boneId, position) ==
    /\ steps < MaxSteps
    /\ bones' = moveBoneIn(bones, boneId, position)
    /\ UNCHANGED <<boneGraphics, selectedBoneId, boneSeq>>
    /\ Tick("moveBone", boneId, position, Repositioned(bones, bones'))

\* enabled for the targets whose solution stays on the quarter-turn lattice
solveIK(boneId, target) ==
    LET r == solveIKIn(bones, boneId, target)
    IN  /\ steps < MaxSteps
        /\ r.exact
        /\ bones' = r.bones
        /\ UNCHANGED <<boneGraphics, selectedBoneId, boneSeq>>
        /\ Tick("solveIK", boneId, target, r.updates)

clear ==
    /\ steps < MaxSteps
    /\ bones' = <<>>
    /\ boneGraphics' = {}
    /\ selectedBoneId' = NoId
    /\ UNCHANGED boneSeq
    /\ Tick("clear", NoId, <<0, 0>>, 0)

(***************************** specification ******************************)
\* ids a caller can pass: known ones, deleted ones and one never generated
AnyId == DOMAIN bones \cup {GhostId}

Init ==
    /\ bones = <<>>
    /\ boneGraphics = {}
    /\ selectedBoneId = NoId
    /\ boneSeq = 0
    /\ tracks = <<>>
    /\ currentFrame = 1
    /\ totalFrames = 300
    /\ emitted = <<>>
    /\ now = 0
    /\ fps = 24
    /\ isPlaying = FALSE
    /\ playInterval = 0
    /\ timers = {}
    /\ last = Op("init", NoId, <<0, 0>>, 0)
    /\ steps = 0

Next ==
    \/ \E c \in CreateArgs, par \in AnyId \cup {NoId} :
           createBone(c[1], c[2], c[3], par)
    \/ \E id \in AnyId : DeleteBone(id)
    \/ \E id \in AnyId, a \in Angles : setBoneAngle(id, a)
    \/ \E id \in AnyId, p \in Points : moveBone(id, p)
    \/ \E id \in AnyId, t \in Targets : solveIK(id, t)
    \/ clear

Spec == Init /\ [][Next]_vars

(************************* BoneSystem: selection **************************)
\* what selectBone(boneId) leaves of the bones and the selection; NoId is null
selectBoneIn(st, boneId) ==
    LET cleared ==
            IF st.selected # NoId /\ Has(st.bones, st.selected)
            THEN [st EXCEPT !.bones[st.selected].isSelected = FALSE]
            ELSE st
        chosen == [cleared EXCEPT !.selected = boneId]
    IN  IF boneId # NoId /\ Has(chosen.bones, boneId)
        THEN [chosen EXCEPT !.bones[boneId].isSelected = TRUE]
        ELSE chosen

selectBone(boneId) ==
    LET st == selectBoneIn(BoneState(bones, boneGraphics, selectedBoneId), boneId)
    IN  /\ steps < MaxSteps
        /\ bones' = st.bones
        /\ selectedBoneId' = st.selected
        /\ UNCHANGED <<boneGraphics, boneSeq>>
        /\ Tick("selectBone", boneId, <<0, 0>>, 0)

NextSelect ==
    \/ \E c \in CreateArgs, par \in AnyId \cup {NoId} :
           createBone(c[1], c[2], c[3], par)
    \/ \E id \in AnyId \cup {NoId} : selectBone(id)
    \/ \E id \in AnyId : DeleteBone(id)
    \/ clear

SpecSelect == Init /\ [][NextSelect]_vars

(************************* BoneSystem: chains under solveIK ***************)
\* bound of the chains the solver is run on, and the lengths of their bones
MaxChain == 2
ChainLengths == {30, 50}

RECURSIVE chainOf(_, _)
\* the hierarchy after createBone was called for each <<length, angle>> of
\* links, the first at the origin and each next one with the one before as parent
chainOf(links, n) ==
    IF n = 0 THEN <<>>
    ELSE createBoneIn(chainOf(links, n - 1), n, 0, 0, links[n][1], links[n][2],
                      IF n = 1 THEN NoId ELSE n - 1)

Chains ==
    UNION {{chainOf(links, n) : links \in [1 .. n -> ChainLengths \X Angles]} :
              n \in 1 .. MaxChain}

InitIK ==
    /\ bones \in Chains
    /\ boneGraphics = DOMAIN bones
    /\ selectedBoneId = NoId
    /\ boneSeq = Cardinality(DOMAIN bones)
    /\ tracks = <<>>
    /\ currentFrame = 1
    /\ totalFrames = 300
    /\ emitted = <<>>
    /\ now = 0
    /\ fps = 24
    /\ isPlaying = FALSE
    /\ playInterval = 0
    /\ timers = {}
    /\ last = Op("createBone", NoId, <<0, 0>>, 0)
    /\ steps = 0

NextIK == \E id \in AnyId, t \in Targets : solveIK(id, t)

SpecIK == InitIK /\ [][NextIK]_vars

(************************* TimelineSystem: data ***************************)
\* bounds of the timeline model
MaxEdits == 4
MaxNow == 1

\* inputs of the timeline operations: frames and property objects given to
\* addKeyframe and updateKeyframe, bone ids given to createTrack
KfFrames == {1, 5, 10}
PropSets == {("x" :> 100), ("x" :> 7) @@ ("y" :> 3)}
BoneRefs == {1}
\* an id that no track and no keyframe carries
UnknownId == MaxNow + 1

\* the index of the first element of s that satisfies test, 0 when none does
\* (Array.prototype.find / findIndex)
FindIndex(s, test(_)) ==
    IF \E i \in 1 .. Len(s) : test(s[i])
    THEN CHOOSE i \in 1 .. Len(s) : test(s[i]) /\ \A j \in 1 .. i - 1 : ~test(s[j])
    ELSE 0

\* this.tracks.get(trackId): the position of the track in the Map, 0 when absent
trackIndex(ts, trackId) == FindIndex(ts, LAMBDA t : t.id = trackId)

\* this.tracks.set(id, track): a known key keeps its place in the Map
tracksSet(ts, track) ==
    LET i == trackIndex(ts, track.id)
    IN  IF i = 0 THEN Append(ts, track) ELSE [ts EXCEPT ![i] = track]

\* { ...a, ...b }
Merge(a, b) ==
    [k \in DOMAIN a \cup DOMAIN b |-> IF k \in DOMAIN b THEN b[k] ELSE a[k]]

\* a sort that leaves the array as it is
sortByFrameNone(kfs) == kfs

RECURSIVE sortByFrame(_)
\* keyframes.sort((a, b) => a.frame - b.frame): stable
sortByFrame(kfs) ==
    IF Len(kfs) <= 1 THEN kfs
    ELSE LET front == sortByFrame(SubSeq(kfs, 1, Len(kfs) - 1))
             e == kfs[Len(kfs)]
             n == Cardinality({i \in 1 .. Len(front) : front[i].frame <= e.frame})
         IN  SubSeq(front, 1, n) \o <<e>> \o SubSeq(front, n + 1, Len(front))

\* what a timeline operation leaves: the tracks, the place <<track, keyframe>>
\* of the keyframe it returns (<<0, 0>> when it returns none) and whether it threw
Outcome(ts, ret, threw) == [tracks |-> ts, ret |-> ret, threw |-> threw]

createTrackIn(ts, t, boneId) ==
    tracksSet(ts, [id |-> t, boneId |-> boneId, keyframes |-> <<>>])

RECURSIVE updateKeyframeFrom(_, _, _, _)
\* for (const track of this.tracks.values()) ... from the i-th track on
updateKeyframeFrom(ts, i, keyframeId, properties) ==
    IF i > Len(ts) THEN Outcome(ts, <<0, 0>>, TRUE)
    ELSE LET k == FindIndex(ts[i].keyframes, LAMBDA kf : kf.id = keyframeId)
         IN  IF k # 0
             THEN Outcome([ts EXCEPT ![i].keyframes[k].properties =
                                         Merge(@, properties)],
                          <<i, k>>, FALSE)
             ELSE updateKeyframeFrom(ts, i + 1, keyframeId, properties)

\* an updateKeyframe that returns quietly when no track holds the id
updateKeyframeQuiet(ts, keyframeId, properties) ==
    [updateKeyframeFrom(ts, 1, keyframeId, properties) EXCEPT !.threw = FALSE]

updateKeyframeIn(ts, keyframeId, properties) ==
    updateKeyframeFrom(ts, 1, keyframeId, properties)

addKeyframeIn(ts, t, trackId, frame, properties) ==
    LET i == trackIndex(ts, trackId)
    IN  IF i = 0 THEN Outcome(ts, <<0, 0>>, TRUE)
        ELSE LET existing == FindIndex(ts[i].keyframes, LAMBDA kf : kf.frame = frame)
             IN  IF existing # 0
                 THEN updateKeyframeIn(ts, ts[i].keyframes[existing].id, properties)
                 ELSE LET keyframe == [id |-> t, frame |-> frame,
                                       boneId |-> ts[i].boneId,
                                       properties |-> properties,
                                       easing |-> "linear"]
                          sorted == sortByFrame(Append(ts[i].keyframes, keyframe))
                      IN  Outcome([ts EXCEPT ![i].keyframes = sorted],
                                  <<i, FindIndex(sorted, LAMBDA kf : kf = keyframe)>>,
                                  FALSE)

RECURSIVE deleteKeyframeFrom(_, _, _)
deleteKeyframeFrom(ts, i, keyframeId) ==
    IF i > Len(ts) THEN ts
    ELSE LET k == FindIndex(ts[i].keyframes, LAMBDA kf : kf.id = keyframeId)
             kfs == ts[i].keyframes
         IN  IF k # 0
             THEN [ts EXCEPT ![i].keyframes =
                       SubSeq(kfs, 1, k - 1) \o SubSeq(kfs, k + 1, Len(kfs))]
             ELSE deleteKeyframeFrom(ts, i + 1, keyframeId)

deleteKeyframeIn(ts, keyframeId) == deleteKeyframeFrom(ts, 1, keyframeId)

(************************* TimelineSystem: operations *********************)
\* the last timeline operation: the id, frame and properties it was given, the
\* place of the keyframe it returned and whether it threw
TOp(name, id, frame, properties, ret, threw) ==
    [op |-> name, id |-> id, frame |-> frame, properties |-> properties,
     ret |-> ret, threw |-> threw]

Edit(name, id, frame, properties, ret, threw) ==
    /\ steps' = steps + 1
    /\ last' = TOp(name, id, frame, properties, ret, threw)
    /\ emitted' = <<>>
    /\ UNCHANGED boneVars
    /\ UNCHANGED <<currentFrame, totalFrames, now, playVars>>

TrackIds(ts) == {ts[i].id : i \in 1 .. Len(ts)}
KeyframeIds(ts) ==
    UNION {{ts[i].keyframes[k].id : k \in 1 .. Len(ts[i].keyframes)} :
              i \in 1 .. Len(ts)}

createTrack(boneId) ==
    /\ steps < MaxEdits
    /\ tracks' = createTrackIn(tracks, now, boneId)
    /\ Edit("createTrack", now, 0, <<>>, <<0, 0>>, FALSE)

addKeyframe(trackId, frame, properties) ==
    LET r == addKeyframeIn(tracks, now, trackId, frame, properties)
    IN  /\ steps < MaxEdits
        /\ tracks' = r.tracks
        /\ Edit("addKeyframe", trackId, frame, properties, r.ret, r.threw)

updateKeyframe(keyframeId, properties) ==
    LET r == updateKeyframeIn(tracks, keyframeId, properties)
    IN  /\ steps < MaxEdits
        /\ tracks' = r.tracks
        /\ Edit("updateKeyframe", keyframeId, 0, properties, r.ret, r.threw)

deleteKeyframe(keyframeId) ==
    /\ steps < MaxEdits
    /\ tracks' = deleteKeyframeIn(tracks, keyframeId)
    /\ Edit("deleteKeyframe", keyframeId, 0, <<>>, <<0, 0>>, FALSE)

\* time passes between two calls
advanceClock ==
    /\ now < MaxNow
    /\ now' = now + 1
    /\ UNCHANGED <<tracks, currentFrame, totalFrames, emitted, last, steps>>
    /\ UNCHANGED <<boneVars, playVars>>


(************************* TimelineSystem: interpolation ******************)
\* NaN and undefined are numbers that no input, frame or value of the model
\* takes otherwise
NaN == -1
Undefined == -2
\* v || d
OrDefault(v, d) == IF v \in {Undefined, NaN, 0} THEN d ELSE v
\* a + b and a >= b on numbers that may be NaN
Plus(a, b) == IF a = NaN \/ b = NaN THEN NaN ELSE a + b
Geq(a, b) == a # NaN /\ b # NaN /\ a >= b

\* an exact rational n / d with d > 0, in lowest terms; <<0, 0>> is NaN (the
\* model has no keyframes of equal frames, so d = 0 comes from NaN only)
RECURSIVE Gcd(_, _)
Gcd(a, b) == IF b = 0 THEN a ELSE Gcd(b, a % b)
Abs(n) == IF n < 0 THEN -n ELSE n
Rat(n, d) ==
    IF d = 0 THEN <<0, 0>>
    ELSE LET g == Gcd(Abs(n), d) IN <<n \div g, d \div g>>
RatLeq(a, b) == a[1] * b[2] <= b[1] * a[2]

\* the bracket interpolateFrame resolves: the first adjacent pair around the
\* frame, else (first, last); as places in the track's keyframes
bracketOf(kfs, frame) ==
    LET hit(i) == frame # NaN /\ kfs[i].frame <= frame /\ kfs[i + 1].frame >= frame
    IN  IF \E i \in 1 .. Len(kfs) - 1 : hit(i)
        THEN LET i == CHOOSE i \in 1 .. Len(kfs) - 1 :
                          hit(i) /\ \A j \in 1 .. i - 1 : ~hit(j)
             IN  <<i, i + 1>>
        ELSE <<1, Len(kfs)>>

\* progress = (frame - prevKf.frame) / range, for range > 0
progressOf(prevKf, nextKf, frame) ==
    IF frame = NaN THEN <<0, 0>>
    ELSE Rat(frame - prevKf.frame, nextKf.frame - prevKf.frame)

\* an easeOut that does not start at 0
applyEasingBad(t, type) ==
    IF type = "easeOut" THEN Rat(t[2] * t[2] - (t[2] - t[1]) * t[1], t[2] * t[2])
    ELSE t

applyEasing(t, type) ==
    LET p == t[1]
        q == t[2]
    IN  CASE type = "easeIn" -> Rat(p * p, q * q)
          [] type = "easeOut" -> Rat(q * q - (q - p) * (q - p), q * q)
          [] type = "easeInOut" ->
                 IF 2 * p < q
                 THEN Rat(2 * p * p, q * q)
                 ELSE Rat(2 * q * q - (2 * q - 2 * p) * (2 * q - 2 * p), 2 * q * q)
          [] OTHER -> t

\* obj[key] || 0
valueOr0(properties, key) == IF key \in DOMAIN properties THEN properties[key] ELSE 0

\* an interpolation that runs over the keys of both keyframes
interpolatedAllKeys(prevKf, nextKf, eased) ==
    [key \in DOMAIN prevKf.properties \cup DOMAIN nextKf.properties |->
        LET start == valueOr0(prevKf.properties, key)
            end == valueOr0(nextKf.properties, key)
        IN  Rat(start * eased[2] + (end - start) * eased[1], eased[2])]

\* start + (end - start) * easedProgress, for every key of prevKf.properties
interpolated(prevKf, nextKf, eased) ==
    [key \in DOMAIN prevKf.properties |->
        LET start == valueOr0(prevKf.properties, key)
            end == valueOr0(nextKf.properties, key)
        IN  Rat(start * eased[2] + (end - start) * eased[1], eased[2])]

Event(type, boneId, properties, frame) ==
    [type |-> type, boneId |-> boneId, properties |-> properties, frame |-> frame]

\* a loop body without the two skips: every track with a keyframe gets an update
interpolateTrackNoSkip(track, frame) ==
    IF Len(track.keyframes) < 1 THEN <<>>
    ELSE LET b == bracketOf(track.keyframes, frame)
             prevKf == track.keyframes[b[1]]
             nextKf == track.keyframes[b[2]]
             eased == applyEasing(progressOf(prevKf, nextKf, frame), prevKf.easing)
         IN  <<Event("boneUpdate", track.boneId,
                     interpolated(prevKf, nextKf, eased), 0)>>

\* the body of interpolateFrame's loop for one track: the events it emits
interpolateTrack(track, frame) ==
    IF Len(track.keyframes) < 2 THEN <<>>
    ELSE LET b == bracketOf(track.keyframes, frame)
             prevKf == track.keyframes[b[1]]
             nextKf == track.keyframes[b[2]]
         IN  IF b[1] = b[2] THEN <<>>
             ELSE LET progress == progressOf(prevKf, nextKf, frame)
                      eased == applyEasing(progress, prevKf.easing)
                  IN  <<Event("boneUpdate", track.boneId,
                              interpolated(prevKf, nextKf, eased), 0)>>

RECURSIVE interpolateFrom(_, _, _)
interpolateFrom(ts, i, frame) ==
    IF i > Len(ts) THEN <<>>
    ELSE interpolateTrack(ts[i], frame) \o interpolateFrom(ts, i + 1, frame)

interpolateFrame(ts, frame) == interpolateFrom(ts, 1, frame)

\* Math.max and Math.min: NaN when an argument is NaN
Max(a, b) == IF a = NaN \/ b = NaN THEN NaN ELSE IF a >= b THEN a ELSE b
Min(a, b) == IF a = NaN \/ b = NaN THEN NaN ELSE IF a <= b THEN a ELSE b

\* what goToFrame leaves: the current frame and the events it dispatched
goToFrameIn(ts, total, frame) ==
    LET clamped == Max(1, Min(total, frame))
    IN  [currentFrame |-> clamped,
         emitted |-> interpolateFrame(ts, clamped)
                         \o <<Event("frameChanged", 0, <<>>, clamped)>>]

goToFrame(frame) ==
    LET r == goToFrameIn(tracks, totalFrames, frame)
    IN  /\ currentFrame' = r.currentFrame
        /\ emitted' = r.emitted
        /\ last' = TOp("goToFrame", 0, frame, <<>>, <<0, 0>>, FALSE)
        /\ UNCHANGED <<tracks, totalFrames, now, steps>>
        /\ UNCHANGED <<boneVars, playVars>>

(************************* TimelineSystem: edits and seeks *****************)
\* the frames given to goToFrame between the edits: what parseInt makes of an
\* empty frame input, a keyframe's frame, and a frame past the end
TimelineFrames == {NaN, 5, 301}

InitTimeline ==
    /\ bones = <<>>
    /\ boneGraphics = {}
    /\ selectedBoneId = NoId
    /\ boneSeq = 0
    /\ tracks = <<>>
    /\ currentFrame = 1
    /\ totalFrames = 300
    /\ emitted = <<>>
    /\ now = 0
    /\ fps = 24
    /\ isPlaying = FALSE
    /\ playInterval = 0
    /\ timers = {}
    /\ last = TOp("init", 0, 0, <<>>, <<0, 0>>, FALSE)
    /\ steps = 0

NextTimeline ==
    \/ \E b \in BoneRefs : createTrack(b)
    \/ \E t \in TrackIds(tracks) \cup {UnknownId}, f \in KfFrames, p \in PropSets :
           addKeyframe(t, f, p)
    \/ \E k \in KeyframeIds(tracks) \cup {UnknownId}, p \in PropSets :
           updateKeyframe(k, p)
    \/ \E k \in KeyframeIds(tracks) \cup {UnknownId} : deleteKeyframe(k)
    \/ \E frame \in TimelineFrames : goToFrame(frame)
    \/ advanceClock

SpecTimeline == InitTimeline /\ [][NextTimeline]_vars

\* bounds and inputs of the interpolation model: the length of the timeline, the
\* frames, easing tags and property objects of the keyframes of the track
InterpTotal == 8
InterpFrames == {2, 4, 7}
EasingTags == {"linear", "easeIn", "easeOut", "easeInOut", "bounce"}
InterpProps == {("x" :> 100), ("x" :> 7) @@ ("y" :> 3), ("y" :> 50)}

\* the strictly ascending frame sequences over InterpFrames, two or three long
InterpFrameSeqs ==
    {fs \in UNION {[1 .. n -> InterpFrames] : n \in 2 .. 3} :
        \A i \in 1 .. Len(fs) - 1 : fs[i] < fs[i + 1]}

\* the keyframe sequences a track can hold: ascending frames, any easing tags
\* and property objects
InterpKeyframes ==
    UNION {{[i \in 1 .. Len(fs) |->
                [id |-> i, frame |-> fs[i], boneId |-> 1,
                 properties |-> ps[i], easing |-> es[i]]] :
               ps \in [1 .. Len(fs) -> InterpProps],
               es \in [1 .. Len(fs) -> EasingTags]} :
              fs \in InterpFrameSeqs}

\* the track of the interpolation scenario: x from 0 at frame 1 to 100 at frame 10
ScenarioKeyframes ==
    <<[id |-> 1, frame |-> 1, boneId |-> 1, properties |-> ("x" :> 0),
       easing |-> "linear"],
      [id |-> 2, frame |-> 10, boneId |-> 1, properties |-> ("x" :> 100),
       easing |-> "linear"]>>

\* the timeline after deserialize of a document with one track, totalFrames
\* InterpTotal and no currentFrame: deserialize ends with goToFrame(1)
InitInterp ==
    /\ bones = <<>>
    /\ boneGraphics = {}
    /\ selectedBoneId = NoId
    /\ boneSeq = 0
    /\ \E kfs \in InterpKeyframes \cup {ScenarioKeyframes} :
           tracks = <<[id |-> 0, boneId |-> 1, keyframes |-> kfs]>>
    /\ currentFrame = 1
    /\ totalFrames = InterpTotal
    /\ emitted = interpolateFrame(tracks, 1) \o <<Event("frameChanged", 0, <<>>, 1)>>
    /\ now = 0
    /\ fps = 24
    /\ isPlaying = FALSE
    /\ playInterval = 0
    /\ timers = {}
    /\ last = TOp("deserialize", 0, 0, <<>>, <<0, 0>>, FALSE)
    /\ steps = 0

NextInterp == \E f \in 0 .. InterpTotal + 1 : goToFrame(f)

SpecInterp == InitInterp /\ [][NextInterp]_vars

(************************* TimelineSystem: playback clock *****************)
\* bounds of the clock model: the timer ids the window can hand out, and the
\* totalFrames of a short document
MaxTimers == 2
PlayTotal == 3
TimerIds == 1 .. MaxTimers

\* texts of the currentFrame and fps inputs, and what parseInt makes of them
InputTexts == {"", "0", "2.9", "12"}
parseInt(text) ==
    CASE text = "" -> NaN
      [] text = "0" -> 0
      [] text = "2.9" -> 2
      [] text = "12" -> 12

\* a totalFrames below 1, as a document can carry it
BadTotal == -5

\* the tracks of a document: one with two keyframes, one with a single
\* keyframe, one with three keyframes
ClockTracks ==
    <<[id |-> 1, boneId |-> 1, keyframes |->
          <<[id |-> 11, frame |-> 1, boneId |-> 1, properties |-> ("x" :> 0),
             easing |-> "linear"],
            [id |-> 12, frame |-> 3, boneId |-> 1, properties |-> ("x" :> 100),
             easing |-> "easeIn"]>>],
      [id |-> 2, boneId |-> 2, keyframes |->
          <<[id |-> 21, frame |-> 2, boneId |-> 2, properties |-> ("y" :> 50),
             easing |-> "linear"]>>],
      [id |-> 3, boneId |-> 3, keyframes |->
          <<[id |-> 31, frame |-> 1, boneId |-> 3, properties |-> ("x" :> 7),
             easing |-> "easeOut"],
            [id |-> 32, frame |-> 2, boneId |-> 3, properties |-> ("x" :> 100),
             easing |-> "linear"],
            [id |-> 33, frame |-> 3, boneId |-> 3, properties |-> ("y" :> 50),
             easing |-> "linear"]>>]>>

\* the documents given to deserialize
ClockData ==
    {[tracks |-> ClockTracks, currentFrame |-> 2, totalFrames |-> PlayTotal,
      fps |-> 12],
     [tracks |-> ClockTracks, currentFrame |-> Undefined,
      totalFrames |-> PlayTotal, fps |-> Undefined],
     [tracks |-> ClockTracks, currentFrame |-> 2, totalFrames |-> BadTotal,
      fps |-> Undefined],
     [tracks |-> <<>>, currentFrame |-> Undefined, totalFrames |-> Undefined,
      fps |-> Undefined]}

\* the frames given to goToFrame by its callers
ClockFrames == {NaN, 0, 2, 301}

\* the playback fields
PlayState(playing, interval, active) ==
    [isPlaying |-> playing, playInterval |-> interval, timers |-> active]

\* a play that does not look at isPlaying
playInUnguarded(p, id) == PlayState(TRUE, id, p.timers \cup {id})

\* play(), with id the timer id that window.setInterval returns
playIn(p, id) ==
    IF p.isPlaying THEN p
    ELSE PlayState(TRUE, id, p.timers \cup {id})

stopIn(p) ==
    IF p.playInterval # 0
    THEN PlayState(FALSE, 0, p.timers \ {p.playInterval})
    ELSE PlayState(FALSE, p.playInterval, p.timers)

togglePlayIn(p, id) == IF p.isPlaying THEN stopIn(p) ELSE playIn(p, id)

\* the fps change handler's restart
fpsRestartIn(p, id) == IF p.isPlaying THEN playIn(stopIn(p), id) ELSE p

\* the frame the interval callback asks goToFrame for
tickTarget(frame, total) == IF Geq(frame, total) THEN 1 ELSE Plus(frame, 1)

RECURSIVE setEach(_, _, _)
\* data.tracks.forEach(trackData => this.tracks.set(trackData.id, trackData))
setEach(ts, list, i) ==
    IF i > Len(list) THEN ts ELSE setEach(tracksSet(ts, list[i]), list, i + 1)

serialize(ts, frame, total, rate) ==
    [tracks |-> ts, currentFrame |-> frame, totalFrames |-> total, fps |-> rate]

\* what deserialize(data) leaves
deserializeIn(data) ==
    LET ts == setEach(<<>>, data.tracks, 1)
        total == OrDefault(data.totalFrames, 300)
        r == goToFrameIn(ts, total, OrDefault(data.currentFrame, 1))
    IN  [tracks |-> ts, totalFrames |-> total, fps |-> OrDefault(data.fps, 24),
         currentFrame |-> r.currentFrame, emitted |-> r.emitted]

Playback == PlayState(isPlaying, playInterval, timers)

\* a clock operation that leaves the tracks and totalFrames alone
Clock(name, id, frame, p, r) ==
    /\ isPlaying' = p.isPlaying
    /\ playInterval' = p.playInterval
    /\ timers' = p.timers
    /\ currentFrame' = r.currentFrame
    /\ emitted' = r.emitted
    /\ last' = TOp(name, id, frame, <<>>, <<0, 0>>, FALSE)
    /\ UNCHANGED <<tracks, totalFrames, now, steps, boneVars>>

Still == [currentFrame |-> currentFrame, emitted |-> <<>>]

play ==
    \E id \in TimerIds \ timers :
        /\ Clock("play", id, 0, playIn(Playback, id), Still)
        /\ UNCHANGED fps

stop ==
    /\ Clock("stop", 0, 0, stopIn(Playback), Still)
    /\ UNCHANGED fps

togglePlay ==
    \E id \in TimerIds \ timers :
        /\ Clock("togglePlay", id, 0, togglePlayIn(Playback, id), Still)
        /\ UNCHANGED fps

\* the change handler of the fps input
fpsChange(text) ==
    \E id \in TimerIds \ stopIn(Playback).timers :
        /\ fps' = parseInt(text)
        /\ Clock("fpsChange", id, 0, fpsRestartIn(Playback, id), Still)

\* the interval callback of timer id
tick(id) ==
    /\ id \in timers
    /\ Clock("tick", id, currentFrame, Playback,
             goToFrameIn(tracks, totalFrames, tickTarget(currentFrame, totalFrames)))
    /\ UNCHANGED fps

\* goToFrame called by the buttons and by other code
seek(frame) ==
    /\ Clock("goToFrame", 0, frame, Playback, goToFrameIn(tracks, totalFrames, frame))
    /\ UNCHANGED fps

\* the change handler of the currentFrame input
frameInput(text) ==
    /\ Clock("goToFrame", 0, parseInt(text), Playback,
             goToFrameIn(tracks, totalFrames, parseInt(text)))
    /\ UNCHANGED fps

selectKeyframe(i, k) ==
    LET keyframe == tracks[i].keyframes[k]
        r == goToFrameIn(tracks, totalFrames, keyframe.frame)
    IN  /\ Clock("selectKeyframe", keyframe.id, keyframe.frame, Playback,
                 [r EXCEPT !.emitted =
                      @ \o <<Event("keyframeSelected", keyframe.boneId, <<>>,
                                   keyframe.frame)>>])
        /\ UNCHANGED fps

deserialize(data) ==
    LET r == deserializeIn(data)
    IN  /\ tracks' = r.tracks
        /\ totalFrames' = r.totalFrames
        /\ fps' = r.fps
        /\ currentFrame' = r.currentFrame
        /\ emitted' = r.emitted
        /\ last' = TOp("deserialize", 0, data.currentFrame, <<>>, <<0, 0>>, FALSE)
        /\ UNCHANGED <<isPlaying, playInterval, timers, now, steps, boneVars>>

\* the timeline after its constructor
InitClock ==
    /\ bones = <<>>
    /\ boneGraphics = {}
    /\ selectedBoneId = NoId
    /\ boneSeq = 0
    /\ tracks = <<>>
    /\ currentFrame = 1
    /\ totalFrames = 300
    /\ emitted = <<>>
    /\ now = 0
    /\ fps = 24
    /\ isPlaying = FALSE
    /\ playInterval = 0
    /\ timers = {}
    /\ last = TOp("init", 0, 0, <<>>, <<0, 0>>, FALSE)
    /\ steps = 0

NextClock ==
    \/ play
    \/ stop
    \/ togglePlay
    \/ \E text \in InputTexts : fpsChange(text)
    \/ \E id \in timers : tick(id)
    \/ \E frame \in ClockFrames \cup {totalFrames} : seek(frame)
    \/ \E text \in InputTexts : frameInput(text)
    \/ \E i \in 1 .. Len(tracks) : \E k \in 1 .. Len(tracks[i].keyframes) :
           selectKeyframe(i, k)
    \/ \E data \in ClockData : deserialize(data)

SpecClock == InitClock /\ [][NextClock]_vars

(************************* TimelineSystem: the playback loop **************)
\* the interval callback of the scheduled timer fires
ticks == \E id \in timers : tick(id)

\* the documents loaded before a playback: one with an animated track and a
\* track of a single keyframe, and an empty one
PlayData ==
    {[tracks |-> SubSeq(ClockTracks, 1, 2), currentFrame |-> 2,
      totalFrames |-> PlayTotal, fps |-> 12],
     [tracks |-> <<>>, currentFrame |-> Undefined, totalFrames |-> Undefined,
      fps |-> Undefined]}

\* a playback that is left alone: a document is loaded and the frame is set
\* while the timeline is not playing; while it is playing only the interval
\* callback, play, stop and the fps input act
NextPlay ==
    \/ play
    \/ stop
    \/ \E text \in InputTexts : fpsChange(text)
    \/ ticks
    \/ ~isPlaying /\ \E frame \in ClockFrames \cup {totalFrames} : seek(frame)
    \/ ~isPlaying /\ \E data \in PlayData : deserialize(data)

\* window.setInterval calls the callback again and again until clearInterval
SpecPlay == InitClock /\ [][NextPlay]_vars /\ WF_vars(ticks)

(************************* claims: bone hierarchy *************************)
\* the bone and everything below it, following parentId links downwards
RECURSIVE Subtree(_, _)
Subtree(bs, S) ==
    LET S2 == S \cup {c \in DOMAIN bs : bs[c].parentId \in S}
    IN  IF S2 = S THEN S ELSE Subtree(bs, S2)

\* position + length * (cos(angle), sin(angle)), written out
EndX(b) == b.x + b.length * Cos(b.angle)
EndY(b) == b.y + b.length * Sin(b.angle)

Count(s, e) == Cardinality({i \in 1 .. Len(s) : s[i] = e})

\* C1 as claimed: children and parentId are mutually consistent: c is in
\* p.children iff c exists and c.parentId = p; no existing bone carries a
\* parentId naming no existing bone; no children list names a missing bone.
C1_Consistent ==
    /\ \A p \in DOMAIN bones : \A c \in BoneIds \cup {GhostId} :
           (c \in SeqRange(bones[p].children))
               <=> (Has(bones, c) /\ bones[c].parentId = p)
    /\ \A c \in DOMAIN bones :
           bones[c].parentId # NoId => Has(bones, bones[c].parentId)
    /\ \A p \in DOMAIN bones : \A c \in SeqRange(bones[p].children) : Has(bones, c)

\* C2: deleteBone(id) of a known id removes exactly the bone and all its
\* descendants, takes id out of the former parent's children and leaves every
\* other bone as it was; with an unknown id it changes nothing.
DeletePost(pre, post, id) ==
    IF ~Has(pre, id) THEN post = pre
    ELSE LET gone == Subtree(pre, {id})
         IN  /\ DOMAIN post = DOMAIN pre \ gone
             /\ \A b \in DOMAIN post :
                    IF b = pre[id].parentId
                    THEN /\ id \notin SeqRange(post[b].children)
                         /\ post[b] = [pre[b] EXCEPT !.children =
                                          SelectSeq(@, LAMBDA c : c # id)]
                    ELSE post[b] = pre[b]
C2_DeleteRemovesSubtree ==
    \A id \in AnyId :
        DeletePost(bones,
                   deleteBone(BoneState(bones, boneGraphics, selectedBoneId), id).bones,
                   id)
\* a bone with a child and a grandchild was deleted and its parent remains
C2_Witness ==
    /\ last.op = "deleteBone"
    /\ last.a = 3
    /\ Cardinality(DOMAIN bones) = 1
    /\ \A b \in DOMAIN bones : bones[b].children = <<>>

\* C3: createBone with a parentId that resolves puts the new bone at the
\* parent's end point, whatever x and y were supplied, and appends the new id
\* exactly once to the parent's children.
C3_CreateAtParentEnd ==
    (last.op = "createBone" /\ Has(bones, last.a)) =>
        LET parent == bones[last.a]
            bone == bones[last.id]
        IN  /\ bone.x = EndX(parent) /\ bone.y = EndY(parent)
            /\ parent.children # <<>>
            /\ parent.children[Len(parent.children)] = last.id
            /\ Count(parent.children, last.id) = 1
\* the scenario of the spec: the parent at the origin with length 30 and angle
\* 0, a child created with other coordinates: it sits at (30, 0)
C3_Witness ==
    /\ last.op = "createBone" /\ Has(bones, last.a)
    /\ bones[last.a].x = 0 /\ bones[last.a].y = 0
    /\ bones[last.a].length = 30 /\ bones[last.a].angle = 0
    /\ last.p = <<4, 7>>
    /\ bones[last.id].x = 30 /\ bones[last.id].y = 0

\* C4: setBoneAngle(id, a) on a known bone gives it angle a, changes no other
\* angle, leaves the bone (when its parent exists) and every descendant at
\* their parent's end point, and updateBonePosition on the bone then changes
\* nothing.
SetAnglePost(pre, post, id, a) ==
    /\ DOMAIN post = DOMAIN pre
    /\ post[id].angle = a
    /\ \A b \in DOMAIN pre \ {id} : post[b].angle = pre[b].angle
    /\ \A b \in Subtree(pre, {id}) :
           Has(post, post[b].parentId) =>
               /\ post[b].x = EndX(post[post[b].parentId])
               /\ post[b].y = EndY(post[post[b].parentId])
    /\ updateBonePosition(post, id) = post
C4_SetAngleRepositions ==
    \A id \in DOMAIN bones : \A a \in Angles :
        SetAnglePost(bones, setBoneAngleIn(bones, id, a), id, a)
\* setBoneAngle on a bone with a child, called while a bone was away from its
\* parent's end point (moveBone had displaced it), repositioned a bone
C4_Witness ==
    /\ last.op = "setBoneAngle" /\ Has(bones, last.id)
    /\ last.p[1] >= 1
    /\ last.a >= 1
    /\ bones[last.id].children # <<>>
    /\ Displaced(bones) = 0

\* C5: moveBone(id, p) puts the bone at p, shifts every descendant by the same
\* (dx, dy), changes no angle and nothing outside the subtree; with an unknown
\* id it changes nothing.
MovePost(pre, post, id, p) ==
    IF ~Has(pre, id) THEN post = pre
    ELSE LET dx == p[1] - pre[id].x
             dy == p[2] - pre[id].y
             sub == Subtree(pre, {id})
         IN  /\ DOMAIN post = DOMAIN pre
             /\ post[id].x = p[1] /\ post[id].y = p[2]
             /\ \A b \in sub :
                    /\ post[b] = [pre[b] EXCEPT !.x = @ + dx, !.y = @ + dy]
                    /\ post[b].x - post[id].x = pre[b].x - pre[id].x
                    /\ post[b].y - post[id].y = pre[b].y - pre[id].y
             /\ \A b \in DOMAIN pre \ sub : post[b] = pre[b]
C5_MoveShiftsSubtree ==
    \A id \in AnyId : \A p \in Points :
        MovePost(bones, moveBoneIn(bones, id, p), id, p)
\* moveBone displaced a bone together with its child and its grandchild
C5_Witness ==
    /\ last.op = "moveBone" /\ Has(bones, last.id)
    /\ last.a = 3
    /\ \E c \in DOMAIN bones : \E g \in DOMAIN bones :
           bones[c].parentId = last.id /\ bones[g].parentId = c

\* C6 as claimed: for a two-bone chain (root at the origin, child attached at
\* its end) and a target with |target| <= L1 + L2, solveIK(child, target) ends
\* with the child's end point within ikTolerance of the target.
TwoBoneChain(bs, id) ==
    /\ Has(bs, id) /\ Has(bs, bs[id].parentId)
    /\ LET root == bs[bs[id].parentId]
       IN  /\ root.parentId = NoId
           /\ root.x = 0 /\ root.y = 0
           /\ bs[id].x = EndX(root) /\ bs[id].y = EndY(root)
InReach(bs, id, t) ==
    LET reach == bs[bs[id].parentId].length + bs[id].length
    IN  t[1] * t[1] + t[2] * t[2] <= reach * reach
C6_ReachableTargetConverges ==
    \A id \in DOMAIN bones : \A t \in Targets :
        (TwoBoneChain(bones, id) /\ InReach(bones, id, t)
            /\ solveIKIn(bones, id, t).exact) =>
            LET post == solveIKIn(bones, id, t).bones
                ex == EndX(post[id]) - t[1]
                ey == EndY(post[id]) - t[2]
            IN  100 * (ex * ex + ey * ey) < 1

(************************* claims: timeline *******************************)
\* C7: every track's keyframes are strictly ascending by frame, so no track
\* holds two keyframes with the same frame number.
C7_StrictlyAscending ==
    \A i \in 1 .. Len(tracks) :
        \A k \in 1 .. Len(tracks[i].keyframes) - 1 :
            tracks[i].keyframes[k].frame < tracks[i].keyframes[k + 1].frame
\* addKeyframe put a new keyframe between two older ones
C7_Witness ==
    /\ last.op = "addKeyframe" /\ ~last.threw
    /\ last.ret[2] = 2
    /\ Len(tracks[last.ret[1]].keyframes) = 3
    /\ tracks[last.ret[1]].keyframes[2].frame = last.frame

\* C8 as claimed: addKeyframe(trackId, frame, props) on a track that has a
\* keyframe at that frame returns that keyframe of that track with props
\* shallow-merged into its properties, and changes nothing else.
ShallowMerged(old, props, new) ==
    /\ DOMAIN new = DOMAIN old \cup DOMAIN props
    /\ \A key \in DOMAIN new :
           new[key] = IF key \in DOMAIN props THEN props[key] ELSE old[key]
C8_AddAtExistingFrameMerges ==
    \A i \in 1 .. Len(tracks) : \A k \in 1 .. Len(tracks[i].keyframes) :
        \A props \in PropSets :
            LET r == addKeyframeIn(tracks, now, tracks[i].id,
                                   tracks[i].keyframes[k].frame, props)
            IN  /\ ~r.threw
                /\ r.ret = <<i, k>>
                /\ Len(r.tracks) = Len(tracks)
                /\ \A j \in 1 .. Len(tracks) :
                       /\ Len(r.tracks[j].keyframes) = Len(tracks[j].keyframes)
                       /\ \A m \in 1 .. Len(tracks[j].keyframes) :
                              IF j = i /\ m = k
                              THEN /\ ShallowMerged(tracks[i].keyframes[k].properties,
                                                    props,
                                                    r.tracks[i].keyframes[k].properties)
                                   /\ [r.tracks[i].keyframes[k] EXCEPT !.properties = <<>>]
                                          = [tracks[i].keyframes[k] EXCEPT !.properties = <<>>]
                              ELSE r.tracks[j].keyframes[m] = tracks[j].keyframes[m]

(************************* claims: interpolation **************************)
\* the boneUpdate the last goToFrame emitted for the i-th track, which has two
\* keyframes or more
UpdateOf(i) ==
    emitted[Cardinality({j \in 1 .. i : Len(tracks[j].keyframes) >= 2})]

Between(v, a, b) ==
    \/ RatLeq(<<a, 1>>, v) /\ RatLeq(v, <<b, 1>>)
    \/ RatLeq(<<b, 1>>, v) /\ RatLeq(v, <<a, 1>>)

PropOr0(kf, key) == IF key \in DOMAIN kf.properties THEN kf.properties[key] ELSE 0

\* C9 as claimed: for a track with two keyframes or more and a frame before its
\* first or after its last keyframe, the progress used is within [0, 1] and
\* every emitted value lies between the bracket's prev and next value.
C9_NoExtrapolation ==
    last.op = "goToFrame" =>
        \A i \in 1 .. Len(tracks) :
            LET kfs == tracks[i].keyframes
                first == kfs[1]
                final == kfs[Len(kfs)]
            IN  (Len(kfs) >= 2 /\ (currentFrame < first.frame \/ currentFrame > final.frame)) =>
                    /\ 0 <= currentFrame - first.frame
                    /\ currentFrame - first.frame <= final.frame - first.frame
                    /\ \A key \in DOMAIN UpdateOf(i).properties :
                           Between(UpdateOf(i).properties[key],
                                   PropOr0(first, key), PropOr0(final, key))

\* j and j + 1 are the first adjacent pair of kfs around frame f
FirstPairAround(kfs, f, j) ==
    /\ kfs[j].frame <= f /\ f <= kfs[j + 1].frame
    /\ \A m \in 1 .. j - 1 : ~(kfs[m].frame <= f /\ f <= kfs[m + 1].frame)

Exactly(properties) == [key \in DOMAIN properties |-> <<properties[key], 1>>]

\* C10 as claimed: at a frame equal to the bracket's prev.frame the update
\* holds exactly prev's property values, for every easing tag, and at a frame
\* equal to next.frame exactly next's property values.
C10_ExactAtKeyframes ==
    last.op = "goToFrame" =>
        \A i \in 1 .. Len(tracks) :
            \A j \in 1 .. Len(tracks[i].keyframes) - 1 :
                LET kfs == tracks[i].keyframes
                IN  FirstPairAround(kfs, currentFrame, j) =>
                        /\ currentFrame = kfs[j].frame =>
                               UpdateOf(i).properties = Exactly(kfs[j].properties)
                        /\ currentFrame = kfs[j + 1].frame =>
                               UpdateOf(i).properties = Exactly(kfs[j + 1].properties)

\* C10 amended: at prev.frame the update holds exactly prev's property values,
\* for every easing tag; at next.frame it holds, for the keys of prev and no
\* others, next's value of the key, or 0 where next has no such key.
C10_ExactAtKeyframesPrevKeys ==
    last.op = "goToFrame" =>
        \A i \in 1 .. Len(tracks) :
            \A j \in 1 .. Len(tracks[i].keyframes) - 1 :
                LET kfs == tracks[i].keyframes
                IN  FirstPairAround(kfs, currentFrame, j) =>
                        /\ currentFrame = kfs[j].frame =>
                               UpdateOf(i).properties = Exactly(kfs[j].properties)
                        /\ currentFrame = kfs[j + 1].frame =>
                               UpdateOf(i).properties =
                                   [key \in DOMAIN kfs[j].properties |->
                                       <<PropOr0(kfs[j + 1], key), 1>>]
\* goToFrame landed on the interior keyframe of a track with three keyframes
\* whose first keyframe eases in and out and has a key the second lacks
C10_Witness ==
    /\ last.op = "goToFrame"
    /\ Len(tracks[1].keyframes) = 3
    /\ currentFrame = tracks[1].keyframes[2].frame
    /\ tracks[1].keyframes[1].easing = "easeInOut"
    /\ tracks[1].keyframes[1].properties = ("x" :> 7) @@ ("y" :> 3)
    /\ tracks[1].keyframes[2].properties = ("x" :> 100)
    /\ emitted[1].properties = ("x" :> <<100, 1>>) @@ ("y" :> <<0, 1>>)

\* (a, b) are the places of the bracket of kfs around frame f: the first
\* adjacent pair around f, or the first and the last keyframe when there is none
BracketAt(kfs, f, a, b) ==
    \/ b = a + 1 /\ a \in 1 .. Len(kfs) - 1 /\ FirstPairAround(kfs, f, a)
    \/ /\ a = 1 /\ b = Len(kfs)
       /\ \A m \in 1 .. Len(kfs) - 1 : ~(kfs[m].frame <= f /\ f <= kfs[m + 1].frame)

\* C11: the boneUpdate of a track holds exactly the keys of the bracket's prev
\* keyframe, and each value is start + (end - start) * Easing[prev.easing](progress)
\* with progress = (frame - prev.frame) / (next.frame - prev.frame), start
\* prev's value and end next's value, or 0 when next lacks the key.
C11_KeysAndValues ==
    last.op = "goToFrame" =>
        \A i \in 1 .. Len(tracks) :
            LET kfs == tracks[i].keyframes
            IN  \A a, b \in 1 .. Len(kfs) :
                    (Len(kfs) >= 2 /\ BracketAt(kfs, currentFrame, a, b)) =>
                        LET e == applyEasing(<<currentFrame - kfs[a].frame,
                                               kfs[b].frame - kfs[a].frame>>,
                                             kfs[a].easing)
                            out == UpdateOf(i).properties
                        IN  /\ DOMAIN out = DOMAIN kfs[a].properties
                            /\ \A key \in DOMAIN out :
                                   LET start == kfs[a].properties[key]
                                       end == PropOr0(kfs[b], key)
                                   IN  out[key][1] * e[2] =
                                           (start * e[2] + (end - start) * e[1]) * out[key][2]
\* the scenario: keyframes {frame 1, x 0} and {frame 10, x 100}, linear, at
\* frame 5 give x = 400/9
C11_Witness ==
    /\ last.op = "goToFrame"
    /\ currentFrame = 5
    /\ tracks[1].keyframes = ScenarioKeyframes
    /\ emitted[1].properties = ("x" :> <<400, 9>>)

(************************* claims: playback clock *************************)
\* C12 as claimed: for totalFrames > 1, a tick taken at totalFrames lands on
\* frame 1 and any other tick advances currentFrame by exactly 1; no tick
\* produces totalFrames + 1 or leaves currentFrame as it was.
C12_TickAdvancesOrWraps ==
    (last.op = "tick" /\ totalFrames > 1) =>
        /\ IF last.frame = totalFrames
           THEN currentFrame = 1
           ELSE currentFrame = last.frame + 1
        /\ currentFrame # totalFrames + 1
        /\ currentFrame # last.frame

\* C13: at most one tick timer is active, isPlaying is true exactly when a
\* timer is scheduled (the one playInterval names), play while playing
\* schedules nothing, stop is idempotent and leaves no timer that could tick.
C13_OneTimer ==
    /\ Cardinality(timers) <= 1
    /\ isPlaying <=> timers # {}
    /\ isPlaying => timers = {playInterval}
    /\ isPlaying => \A id \in TimerIds \ timers : playIn(Playback, id) = Playback
    /\ stopIn(stopIn(Playback)) = stopIn(Playback)
    /\ stopIn(Playback).timers = {}
    /\ ~stopIn(Playback).isPlaying
\* play was called while playing: the timer id it would have got is not scheduled
C13_Witness ==
    /\ last.op = "play"
    /\ isPlaying
    /\ last.id \notin timers
    /\ Cardinality(timers) = 1

\* n clamped into [1, total]
Clamped(n, total) == IF n < 1 THEN 1 ELSE IF n > total THEN total ELSE n

\* C14 as claimed: 1 <= currentFrame <= totalFrames, totalFrames > 0 and
\* fps > 0 in every state, and goToFrame(n) leaves currentFrame at n clamped
\* into [1, totalFrames].
C14_ClockInRange ==
    /\ Geq(currentFrame, 1) /\ Geq(totalFrames, currentFrame)
    /\ Geq(totalFrames, 1)
    /\ Geq(fps, 1)
    /\ (last.op = "goToFrame" /\ last.frame # NaN) =>
           currentFrame = Clamped(last.frame, totalFrames)

(************************* claims: timeline errors and ids ****************)
\* C15: addKeyframe with an unknown trackId and updateKeyframe with an id that
\* no track contains fail (NotFound) and leave every track and keyframe as it
\* was; deleteKeyframe with such an id returns normally and changes nothing.
C15_NotFound ==
    /\ \A f \in KfFrames, p \in PropSets :
           addKeyframeIn(tracks, now, UnknownId, f, p) = Outcome(tracks, <<0, 0>>, TRUE)
    /\ \A p \in PropSets :
           updateKeyframeIn(tracks, UnknownId, p) = Outcome(tracks, <<0, 0>>, TRUE)
    /\ deleteKeyframeIn(tracks, UnknownId) = tracks
    /\ (last.op \in {"addKeyframe", "updateKeyframe"} /\ last.id = UnknownId) =>
           last.threw
\* updateKeyframe failed on a timeline that holds keyframes
C15_Witness ==
    /\ last.op = "updateKeyframe" /\ last.threw
    /\ last.id \notin KeyframeIds(tracks)
    /\ KeyframeIds(tracks) # {}

\* C16 as claimed: deserialize(serialize()) yields the same tracks with the
\* same keyframes in the same order and the same currentFrame, totalFrames and
\* fps; a clock field absent from the data is restored as totalFrames 300,
\* fps 24, currentFrame 1.
C16_RoundTrip ==
    LET back == deserializeIn(serialize(tracks, currentFrame, totalFrames, fps))
        bare == deserializeIn([tracks |-> tracks, currentFrame |-> Undefined,
                               totalFrames |-> Undefined, fps |-> Undefined])
    IN  /\ back.tracks = tracks
        /\ back.currentFrame = currentFrame
        /\ back.totalFrames = totalFrames
        /\ back.fps = fps
        /\ bare.tracks = tracks
        /\ bare.totalFrames = 300 /\ bare.fps = 24 /\ bare.currentFrame = 1

(************************* claims: solveIK ********************************)
\* the place in the chain of the k-th joint step: from the effector back to
\* the root, pass after pass
JointAt(chain, k) == Len(chain) - ((k - 1) % Len(chain))

RECURSIVE StepsUntilWithin(_, _, _, _)
\* the bones and the number of joint steps made when, from the k-th joint step
\* on, a step is made whenever the end effector is not within tolerance, at
\* most ikIterations passes over the chain in all
StepsUntilWithin(bs, chain, target, k) ==
    IF k > ikIterations * Len(chain) \/ withinTolerance(getChainEnd(bs, chain), target)
    THEN [bones |-> bs, updates |-> k - 1]
    ELSE StepsUntilWithin(jointStep(bs, chain, JointAt(chain, k), target),
                          chain, target, k + 1)

\* C17: solveIK makes at most ikIterations * chainLength angle updates, visiting
\* the joints from the effector back to the root; it returns at the first joint
\* step at which the end effector is within tolerance and changes nothing after
\* it; it changes nothing at all when the effector starts within tolerance or
\* the bone id is unknown.
C17_BoundedAndStopsAtTolerance ==
    \A id \in AnyId : \A t \in Targets :
        LET r == solveIKIn(bones, id, t)
            target == Vec(t[1], t[2])
        IN  r.exact =>
                IF ~Has(bones, id)
                THEN r.bones = bones /\ r.updates = 0
                ELSE LET chain == buildChain(bones, id, <<>>)
                         first == StepsUntilWithin(bones, chain, target, 1)
                     IN  /\ r.updates <= ikIterations * Len(chain)
                         /\ r.updates = first.updates
                         /\ r.bones = first.bones
                         /\ withinTolerance(getChainEnd(bones, chain), target) =>
                                r.bones = bones /\ r.updates = 0
\* solveIK returned in the middle of a pass over a chain of two bones: the first
\* joint step brought the effector onto the target
C17_Witness ==
    /\ last.op = "solveIK"
    /\ last.a = 1
    /\ Has(bones, last.id)
    /\ Len(buildChain(bones, last.id, <<>>)) = 2
    /\ withinTolerance(getBoneEnd(bones[last.id]), Vec(last.p[1], last.p[2]))

\* C19 as claimed: a joint step applied to the effector bone itself leaves the
\* direction from its origin to its end point equal to the direction from its
\* origin to the target.
C19_StepTurnsTowardTarget ==
    \A id \in DOMAIN bones : \A t \in Targets :
        LET chain == buildChain(bones, id, <<>>)
            target == Vec(t[1], t[2])
            toTarget == toTargetOf(bones, chain, Len(chain), target)
            post == jointStep(bones, chain, Len(chain), target)
            toEnd == toEndOf(post, chain, Len(chain))
        IN  (/\ ~isZero(toTarget)
             /\ exactAngle(toTarget, toEndOf(bones, chain, Len(chain)))) =>
                /\ crossOf(toTarget, toEnd) = 0
                /\ dotOf(toTarget, toEnd) > 0

(************************* claims: events of a seek ***********************)
\* the tracks that have two or more keyframes, in the order of the map
Animated(ts) ==
    LET two(track) == Len(track.keyframes) >= 2
    IN  SelectSeq(ts, two)

\* ev holds one boneUpdate for each animated track of ts, in order, carrying
\* that track's boneId, and nothing else
OneUpdatePerTrack(ev, ts) ==
    /\ Len(ev) = Len(Animated(ts))
    /\ \A j \in 1 .. Len(ev) :
           /\ ev[j].type = "boneUpdate"
           /\ ev[j].boneId = Animated(ts)[j].boneId

\* ev is the boneUpdates of the tracks followed by the one frameChanged of frame
UpdatesThenFrameChanged(ev, ts, frame) ==
    /\ Len(ev) >= 1
    /\ OneUpdatePerTrack(SubSeq(ev, 1, Len(ev) - 1), ts)
    /\ ev[Len(ev)] = Event("frameChanged", 0, <<>>, frame)

\* C18: interpolateFrame(frame) emits, for every frame value, no boneUpdate for
\* a track with fewer than two keyframes and exactly one, with the track's
\* boneId, for every track with two or more; the events of a goToFrame (called
\* directly, by a tick of the playback or by the frame input) are these
\* boneUpdates followed by the single frameChanged of the frame it stored.
C18_OneUpdatePerTrackThenFrameChanged ==
    /\ \A frame \in ClockFrames \cup (1 .. PlayTotal) :
           /\ OneUpdatePerTrack(interpolateFrame(tracks, frame), tracks)
           /\ LET r == goToFrameIn(tracks, totalFrames, frame)
              IN  UpdatesThenFrameChanged(r.emitted, tracks, r.currentFrame)
    /\ last.op \in {"goToFrame", "tick", "deserialize"} =>
           UpdatesThenFrameChanged(emitted, tracks, currentFrame)
\* a tick of the playback over the three tracks: updates for the bones of the
\* tracks with two and with three keyframes, none for the one with a single
\* keyframe, then frameChanged
C18_Witness ==
    /\ last.op = "tick"
    /\ tracks = ClockTracks
    /\ Len(emitted) = 3
    /\ emitted[1].type = "boneUpdate" /\ emitted[1].boneId = 1
    /\ emitted[2].type = "boneUpdate" /\ emitted[2].boneId = 3
    /\ emitted[3].type = "frameChanged"

(************************* claims: timeline ids ***************************)
\* the places <<track, keyframe>> of all keyframes of ts
KeyframePlaces(ts) ==
    UNION {{<<i, k>> : k \in 1 .. Len(ts[i].keyframes)} : i \in 1 .. Len(ts)}

\* C20 as claimed: a createTrack call at any moment adds one track and keeps
\* the ones there are, and no two keyframes of the timeline, in the same track
\* or in different ones, carry the same id (so an id names one keyframe).
C20_IdsUnique ==
    /\ \A boneId \in BoneRefs :
           LET post == createTrackIn(tracks, now, boneId)
           IN  /\ Len(post) = Len(tracks) + 1
               /\ SubSeq(post, 1, Len(tracks)) = tracks
    /\ \A p \in KeyframePlaces(tracks) : \A q \in KeyframePlaces(tracks) :
           tracks[p[1]].keyframes[p[2]].id = tracks[q[1]].keyframes[q[2]].id
               => p = q

(************************* claims: selection ******************************)
\* C21 as claimed: selectedBoneId is null or the id of an existing bone, and a
\* bone has isSelected = true exactly when its id equals selectedBoneId.
C21_SelectionConsistent ==
    /\ selectedBoneId = NoId \/ Has(bones, selectedBoneId)
    /\ \A b \in DOMAIN bones : bones[b].isSelected <=> b = selectedBoneId

(************************* claims: playback loop **************************)
\* a tick has made frame the current frame and dispatched its frameChanged
Visited(frame) ==
    /\ last.op = "tick"
    /\ currentFrame = frame
    /\ Len(emitted) >= 1
    /\ emitted[Len(emitted)] = Event("frameChanged", 0, <<>>, frame)

\* C22 as claimed: whenever the timeline is playing, every frame of
\* 1 .. totalFrames is visited by a later tick, with its frameChanged event,
\* unless stop() ends the playback first; so a playback that is never stopped
\* visits every frame infinitely often.
C22_EveryFrameInfinitelyOften ==
    \A frame \in 1 .. PlayTotal :
        [](isPlaying /\ frame <= totalFrames => <>(~isPlaying \/ Visited(frame)))

====
